---- MODULE Spec2Model ----
(***************************************************************************)
(* Model of the Waveshare 1.54" (B) v2 e-paper driver                      *)
(* (src/src/epd1in54b_v2/mod.rs).                                          *)
(*                                                                         *)
(* Every driver function is an operator that yields the sequence of        *)
(* primitive instructions the function executes, in program order.  A call *)
(* action loads that sequence into prog, and one Step action per kind of   *)
(* instruction executes its head: a busy-wait blocks while the busy pin    *)
(* shows busy, a bus transaction succeeds or returns an SPI error, an      *)
(* assertion or unimplemented!() panics.  log holds what the current (or   *)
(* last) operation did on the pins and the bus.                            *)
(***************************************************************************)
EXTENDS Integers, Sequences, FiniteSets, TLC

VARIABLES
    exists,            \* the caller holds an Epd1in54b (new returned Ok(epd))
    background_color,  \* Epd1in54b.background_color
    busy_pin,          \* level of the BUSY input pin: "low" or "high"
    op,                \* the operation running, or the last one that ran
    args,              \* its integer arguments
    bufs,              \* its buffer arguments
    prog,              \* the instructions it has still to execute
    status,            \* "none", "running", "Ok", an SpiError, or "panic"
    log,               \* what it has done on the pins and the bus so far
    regs,              \* controller: last payload taken per register since reset
    asleep,            \* controller: in deep sleep (until the next hardware reset)
    sleeping,          \* sleep has returned Ok, and new, init or wake_up was not called since
    was_sleeping,      \* sleeping, as it was when the operation was called
    ret                \* << v >> once width() or height() returned v, << >> otherwise

vars == << exists, background_color, busy_pin, op, args, bufs, prog, status, log,
           regs, asleep, sleeping, was_sleeping, ret >>

\* ------------------------------------------------------------------ bounds

\* Longest frame buffer a caller passes (the code checks no length).
MaxBufLen == 1

\* ------------------------------------------------------- program constants

WIDTH == 200
HEIGHT == 200
DEFAULT_BACKGROUND_COLOR == "White"
IS_BUSY_LOW == FALSE

TriColor == {"Black", "White", "Chromatic"}

\* TriColor::get_byte_value: the byte that fills the achromatic plane.
get_byte_value(color) ==
    CASE color = "Black" -> 0
      [] color = "White" -> 255
      [] color = "Chromatic" -> 255

\* Command: the opcodes of crate::type_a::command::Command this driver uses.
Command ==
    { "DriverOutputControl", "DeepSleepMode", "DataEntryModeSetting", "SwReset",
      "TemperatureSensorSelection", "TemperatureSensorControl",
      "MasterActivation", "DisplayUpdateControl2", "WriteRam", "WriteRam2",
      "BorderWaveformControl", "SetRamXAddressStartEndPosition",
      "SetRamYAddressStartEndPosition", "SetRamXAddressCounter",
      "SetRamYAddressCounter", "Nop" }

\* The SPI errors a bus transaction can return (SPI::Error).
SpiError == {"E1", "E2"}

\* `v as u8`
u8(v) == v % 256

\* `v >> k` on u32
shr(v, k) == v \div (2 ^ k)

\* ------------------------------------------------------------ instructions

\* One primitive instruction.  k: its kind; op: the opcode of a command, and
\* for payload bytes the opcode they follow; d: the payload bytes (the delays of a reset, the fill byte of a repeated
\* fill); n: the repetitions of a repeated fill, the truth of an assertion;
\* q: the call's Result reaches the caller of the operation (`?` or a tail
\* expression at every call site on the way up).
Ins(kind, opcode, data, num) ==
    [k |-> kind, op |-> opcode, d |-> data, n |-> num, q |-> TRUE]

\* The calls of p with their Result dropped (`let _ = ...`) instead of propagated.
dropped(p) == [i \in DOMAIN p |-> [p[i] EXCEPT !.q = FALSE]]

\* DisplayInterface::reset(delay, initial_delay, duration)
interface_reset(initial_delay, duration) ==
    << Ins("reset", "", <<initial_delay, duration>>, 0) >>

\* DisplayInterface::wait_until_idle(delay, is_busy_low)
interface_wait_until_idle(is_busy_low) ==
    << Ins("wait", "", <<>>, IF is_busy_low THEN 1 ELSE 0) >>

\* DisplayInterface::cmd(spi, command)
interface_cmd(c) == << Ins("cmd", c, <<>>, 0) >>

\* DisplayInterface::data(spi, data)
interface_data(data) == << Ins("data", "", data, 0) >>

\* DisplayInterface::cmd_with_data(spi, command, data): cmd?; data
interface_cmd_with_data(c, data) == interface_cmd(c) \o << Ins("data", c, data, 0) >>

\* DisplayInterface::data_x_times(spi, val, repetitions)
interface_data_x_times(val, repetitions) ==
    << Ins("data_x_times", "", <<val>>, repetitions) >>

\* assert!(cond)
assert(cond) == << Ins("assert", "", <<>>, IF cond THEN 1 ELSE 0) >>

\* unimplemented!()
unimplemented == << Ins("panic", "", <<>>, 0) >>

\* ------------------------------------------------------- driver functions


\* wait_until_idle that takes the busy line as active low.
wait_until_idle_busy_low == interface_wait_until_idle(TRUE)

wait_until_idle == interface_wait_until_idle(IS_BUSY_LOW)

command(c) == interface_cmd(c)

send_data(data) == interface_data(data)

cmd_with_data(c, data) == interface_cmd_with_data(c, data)


\* set_ram_area with the assertions after the X-window transaction.
set_ram_area_late_assert(start_x, start_y, end_x, end_y) ==
    wait_until_idle
    \o interface_cmd_with_data("SetRamXAddressStartEndPosition",
           << u8(shr(start_x, 3)), u8(shr(end_x, 3)) >>)
    \o assert(start_x < end_x)
    \o assert(start_y < end_y)
    \o interface_cmd_with_data("SetRamYAddressStartEndPosition",
           << u8(start_y), u8(shr(start_y, 8)), u8(end_y), u8(shr(end_y, 8)) >>)

\* set_ram_area that sends each Y coordinate high byte first.
set_ram_area_big_endian(start_x, start_y, end_x, end_y) ==
    wait_until_idle
    \o assert(start_x < end_x)
    \o assert(start_y < end_y)
    \o interface_cmd_with_data("SetRamXAddressStartEndPosition",
           << u8(shr(start_x, 3)), u8(shr(end_x, 3)) >>)
    \o interface_cmd_with_data("SetRamYAddressStartEndPosition",
           << u8(shr(start_y, 8)), u8(start_y), u8(shr(end_y, 8)), u8(end_y) >>)

set_ram_area(start_x, start_y, end_x, end_y) ==
    wait_until_idle
    \o assert(start_x < end_x)
    \o assert(start_y < end_y)
    \o interface_cmd_with_data("SetRamXAddressStartEndPosition",
           << u8(shr(start_x, 3)), u8(shr(end_x, 3)) >>)
    \o interface_cmd_with_data("SetRamYAddressStartEndPosition",
           << u8(start_y), u8(shr(start_y, 8)), u8(end_y), u8(shr(end_y, 8)) >>)

\* set_ram_counter that does not wait for the controller to be idle.
set_ram_counter_no_wait(x, y) ==
    cmd_with_data("SetRamXAddressCounter", << u8(shr(x, 3)) >>)
    \o cmd_with_data("SetRamYAddressCounter", << u8(y), u8(shr(y, 8)) >>)

\* set_ram_counter that rounds the X coordinate up to the next byte.
set_ram_counter_round_up(x, y) ==
    wait_until_idle
    \o cmd_with_data("SetRamXAddressCounter", << u8(shr(x + 7, 3)) >>)
    \o cmd_with_data("SetRamYAddressCounter", << u8(y), u8(shr(y, 8)) >>)

set_ram_counter(x, y) ==
    wait_until_idle
    \o cmd_with_data("SetRamXAddressCounter", << u8(shr(x, 3)) >>)
    \o cmd_with_data("SetRamYAddressCounter", << u8(y), u8(shr(y, 8)) >>)

\* use_full_frame that passes the window's corners in the wrong order.
use_full_frame_swapped ==
    set_ram_area(WIDTH - 1, HEIGHT - 1, 0, 0)
    \o set_ram_counter(0, 0)

use_full_frame ==
    set_ram_area(0, 0, WIDTH - 1, HEIGHT - 1)
    \o set_ram_counter(0, 0)


\* init that resets the RAM cursor right after the window, before the border
\* waveform and the temperature sensor.
init_cursor_before_border ==
    interface_reset(10000, 10000)
    \o wait_until_idle
    \o command("SwReset")
    \o wait_until_idle
    \o cmd_with_data("DriverOutputControl", << u8(HEIGHT - 1), 0, 0 >>)
    \o cmd_with_data("DataEntryModeSetting", << 3 >>)
    \o set_ram_area(0, 0, WIDTH - 1, HEIGHT - 1)
    \o set_ram_counter(0, 0)
    \o cmd_with_data("BorderWaveformControl", << 5 >>)
    \o cmd_with_data("TemperatureSensorSelection", << 128 >>)
    \o cmd_with_data("TemperatureSensorControl", << 177, 32 >>)
    \o wait_until_idle

\* init that leaves the RAM cursor where it is.
init_no_ram_counter ==
    interface_reset(10000, 10000)
    \o wait_until_idle
    \o command("SwReset")
    \o wait_until_idle
    \o cmd_with_data("DriverOutputControl", << u8(HEIGHT - 1), 0, 0 >>)
    \o cmd_with_data("DataEntryModeSetting", << 3 >>)
    \o set_ram_area(0, 0, WIDTH - 1, HEIGHT - 1)
    \o cmd_with_data("BorderWaveformControl", << 5 >>)
    \o cmd_with_data("TemperatureSensorSelection", << 128 >>)
    \o cmd_with_data("TemperatureSensorControl", << 177, 32 >>)
    \o wait_until_idle

init ==
    interface_reset(10000, 10000)
    \o wait_until_idle
    \o command("SwReset")
    \o wait_until_idle
    \o cmd_with_data("DriverOutputControl", << u8(HEIGHT - 1), 0, 0 >>)
    \o cmd_with_data("DataEntryModeSetting", << 3 >>)
    \o set_ram_area(0, 0, WIDTH - 1, HEIGHT - 1)
    \o cmd_with_data("BorderWaveformControl", << 5 >>)
    \o cmd_with_data("TemperatureSensorSelection", << 128 >>)
    \o cmd_with_data("TemperatureSensorControl", << 177, 32 >>)
    \o set_ram_counter(0, 0)
    \o wait_until_idle

update_achromatic_frame(black) ==
    wait_until_idle
    \o use_full_frame
    \o cmd_with_data("WriteRam", black)

\* update_chromatic_frame that writes the plane without selecting window and cursor.
update_chromatic_frame_no_preamble(chromatic) ==
    wait_until_idle
    \o cmd_with_data("WriteRam2", chromatic)

update_chromatic_frame(chromatic) ==
    wait_until_idle
    \o use_full_frame
    \o cmd_with_data("WriteRam2", chromatic)

\* update_color_frame that writes the chromatic plane first.
update_color_frame_chromatic_first(black, chromatic) ==
    update_chromatic_frame(chromatic)
    \o update_achromatic_frame(black)

update_color_frame(black, chromatic) ==
    update_achromatic_frame(black)
    \o update_chromatic_frame(chromatic)


\* sleep that drops the Result of the command and sends the payload anyway.
sleep_drop_error ==
    wait_until_idle
    \o dropped(interface_cmd("DeepSleepMode"))
    \o << Ins("data", "DeepSleepMode", << 1 >>, 0) >>

\* sleep that does not wait for the controller to be idle.
sleep_no_wait == interface_cmd_with_data("DeepSleepMode", << 1 >>)

sleep ==
    wait_until_idle
    \o interface_cmd_with_data("DeepSleepMode", << 1 >>)


\* wake_up that skips the hardware reset of init.
wake_up_no_reset == Tail(init)

wake_up == init

update_frame(buffer) ==
    wait_until_idle
    \o use_full_frame
    \o cmd_with_data("WriteRam", buffer)


\* update_partial_frame that falls back to a full-frame write.
update_partial_frame_full(buffer, x, y, width, height) == update_frame(buffer)

update_partial_frame(buffer, x, y, width, height) == unimplemented


\* display_frame that picks the update sequence by the background colour.
display_frame_by_background ==
    wait_until_idle
    \o cmd_with_data("DisplayUpdateControl2",
                     << IF background_color = "Chromatic" THEN 247 ELSE 199 >>)
    \o command("MasterActivation")
    \o command("Nop")

\* display_frame with a busy-wait between MasterActivation and Nop.
display_frame_wait_before_nop ==
    wait_until_idle
    \o cmd_with_data("DisplayUpdateControl2", << 247 >>)
    \o command("MasterActivation")
    \o wait_until_idle
    \o command("Nop")

display_frame ==
    wait_until_idle
    \o cmd_with_data("DisplayUpdateControl2", << 247 >>)
    \o command("MasterActivation")
    \o command("Nop")


\* update_and_display_frame that refreshes the panel before it writes the buffer.
update_and_display_frame_display_first(buffer) ==
    display_frame
    \o update_frame(buffer)

update_and_display_frame(buffer) ==
    update_frame(buffer)
    \o display_frame


\* clear_frame with the same fill length for every background colour.
clear_frame_same_length ==
    wait_until_idle
    \o use_full_frame
    \o command("WriteRam")
    \o interface_data_x_times(get_byte_value(background_color), (WIDTH \div 8) * HEIGHT)
    \o command("WriteRam2")
    \o interface_data_x_times(0, (WIDTH \div 8) * HEIGHT)

clear_frame ==
    wait_until_idle
    \o use_full_frame
    \o ( IF background_color = "Chromatic"
         THEN command("WriteRam")
              \o interface_data_x_times(255, 2 * ((WIDTH \div 8) * HEIGHT))
              \o command("WriteRam2")
              \o interface_data_x_times(0, (WIDTH \div 8) * HEIGHT)
         ELSE command("WriteRam")
              \o interface_data_x_times(get_byte_value(background_color),
                                        (WIDTH \div 8) * HEIGHT)
              \o command("WriteRam2")
              \o interface_data_x_times(0, (WIDTH \div 8) * HEIGHT) )

set_lut(refresh_rate) == unimplemented


\* width that reports the bytes of a row instead of its pixels.
width_in_bytes == WIDTH \div 8

width == WIDTH

height == HEIGHT


\* new that returns the instance whatever the transactions of init returned.
new_ignore_error == dropped(init)

new == init


\* -------------------------------------------------------------- controller

\* The opcodes of the configuration registers that init programs.
RegOps ==
    { "DriverOutputControl", "DataEntryModeSetting",
      "SetRamXAddressStartEndPosition", "SetRamYAddressStartEndPosition",
      "SetRamXAddressCounter", "SetRamYAddressCounter",
      "BorderWaveformControl", "TemperatureSensorSelection",
      "TemperatureSensorControl" }

\* Every register at its power-on value (nothing sent since the reset).
POR == [c \in RegOps |-> <<>>]

\* A hardware reset pulse: registers back to power-on, deep sleep left.
ctl_reset ==
    /\ regs' = POR
    /\ asleep' = FALSE

\* The controller takes what instruction ins puts on the bus: SwReset puts the
\* registers back to power-on, a register's payload sets it, DeepSleepMode with
\* payload 0x01 enters deep sleep.
ctl_take(ins) ==
    /\ regs' = IF ins.k = "cmd" /\ ins.op = "SwReset" THEN POR
               ELSE IF ins.k = "data" /\ ins.op \in RegOps
                    THEN [regs EXCEPT ![ins.op] = ins.d]
                    ELSE regs
    /\ asleep' = (asleep \/ (ins.k = "data" /\ ins.op = "DeepSleepMode" /\ ins.d = <<1>>))

\* --------------------------------------------------------------- execution

\* What an executed instruction leaves in the log; r: "ok" or the SpiError.
Event(ins, r) == [k |-> ins.k, op |-> ins.op, d |-> ins.d, n |-> ins.n, r |-> r]

\* DisplayInterface::is_busy(is_busy_low)
is_busy(is_busy_low) ==
    \/ is_busy_low /\ busy_pin = "low"
    \/ ~is_busy_low /\ busy_pin = "high"

Running == status = "running"

\* No operation is running and none has panicked: the caller can call one.
Idle == status \notin {"running", "panic"}

\* The operations that run init.
InitOps == {"new", "init", "wake_up"}

\* The bytes and buffers, coordinates and options callers pass.
Bytes == {0, 255}
Buffers == UNION { [1..len -> Bytes] : len \in 1..MaxBufLen }
XCoords == {0, 7, 2063}
YCoords == {0, 258, 513}
RefreshLut == <<"None", "Some(Full)", "Some(Quick)">>

Init ==
    /\ exists = FALSE
    /\ background_color = DEFAULT_BACKGROUND_COLOR
    /\ busy_pin \in {"low", "high"}
    /\ op = "none"
    /\ args = <<>>
    /\ bufs = <<>>
    /\ prog = <<>>
    /\ status = "none"
    /\ log = <<>>
    /\ regs = POR
    /\ asleep = FALSE
    /\ sleeping = FALSE
    /\ was_sleeping = FALSE
    /\ ret = <<>>

\* The caller calls operation name with arguments a (integers) and b (buffers);
\* p is the instruction sequence of its body.
Call(name, a, b, p) ==
    /\ Idle
    /\ op' = name
    /\ args' = a
    /\ bufs' = b
    /\ prog' = p
    /\ status' = "running"
    /\ log' = <<>>
    /\ sleeping' = (sleeping /\ name \notin InitOps)
    /\ was_sleeping' = sleeping
    /\ ret' = <<>>
    /\ UNCHANGED << exists, busy_pin, regs, asleep >>

\* Epd1in54b::new: binds the interface, sets the default colour, runs init.
New ==
    /\ ~exists
    /\ Call("new", <<>>, <<>>, new)
    /\ background_color' = DEFAULT_BACKGROUND_COLOR

\* A method is called on the instance the caller holds.
OnInstance == exists /\ UNCHANGED background_color

WakeUp ==
    /\ OnInstance
    /\ Call("wake_up", <<>>, <<>>, wake_up)

Sleep ==
    /\ OnInstance
    /\ Call("sleep", <<>>, <<>>, sleep)

UpdateFrame == \E buffer \in Buffers :
    OnInstance /\ Call("update_frame", <<>>, <<buffer>>, update_frame(buffer))

UpdateColorFrame == \E black \in Buffers, chromatic \in Buffers :
    OnInstance /\ Call("update_color_frame", <<>>, <<black, chromatic>>,
           update_color_frame(black, chromatic))

UpdateAchromaticFrame == \E black \in Buffers :
    OnInstance /\ Call("update_achromatic_frame", <<>>, <<black>>, update_achromatic_frame(black))

UpdateChromaticFrame == \E chromatic \in Buffers :
    OnInstance /\ Call("update_chromatic_frame", <<>>, <<chromatic>>,
           update_chromatic_frame(chromatic))

DisplayFrame ==
    /\ OnInstance
    /\ Call("display_frame", <<>>, <<>>, display_frame)

UpdateAndDisplayFrame == \E buffer \in Buffers :
    OnInstance /\ Call("update_and_display_frame", <<>>, <<buffer>>,
           update_and_display_frame(buffer))

ClearFrame ==
    /\ OnInstance
    /\ Call("clear_frame", <<>>, <<>>, clear_frame)

UpdatePartialFrame ==
    \E buffer \in Buffers, x \in {0, 7}, y \in {0, 258}, w \in {0, 200}, h \in {200} :
        OnInstance /\ Call("update_partial_frame", <<x, y, w, h>>, <<buffer>>,
               update_partial_frame(buffer, x, y, w, h))

SetLut == \E i \in DOMAIN RefreshLut :
    OnInstance /\ Call("set_lut", <<i>>, <<>>, set_lut(RefreshLut[i]))

\* set_background_color(color): assigns the field and returns.
SetBackgroundColor == \E color \in TriColor :
    /\ exists
    /\ Idle
    /\ background_color' = color
    /\ op' = "set_background_color"
    /\ args' = <<>>
    /\ bufs' = <<>>
    /\ prog' = <<>>
    /\ status' = "Ok"
    /\ log' = <<>>
    /\ ret' = <<>>
    /\ was_sleeping' = sleeping
    /\ UNCHANGED << exists, busy_pin, regs, asleep, sleeping >>

\* A getter (&self) returns: nothing runs, nothing in the driver changes.
\* value is << v >> for a number v returned, << >> for a reference to a field.
Getter(name, value) ==
    /\ Idle
    /\ op' = name
    /\ args' = <<>>
    /\ bufs' = <<>>
    /\ prog' = <<>>
    /\ status' = "Ok"
    /\ log' = <<>>
    /\ ret' = value
    /\ was_sleeping' = sleeping
    /\ UNCHANGED << exists, background_color, busy_pin, regs, asleep, sleeping >>

Width ==
    /\ exists
    /\ Getter("width", << width >>)

Height ==
    /\ exists
    /\ Getter("height", << height >>)

\* background_color(): a reference to the field background_color.
BackgroundColor ==
    /\ exists
    /\ Getter("background_color", << >>)

\* The calls the crate itself makes on an instance (pub(crate) and trait-internal).
InitCall ==
    /\ OnInstance
    /\ Call("init", <<>>, <<>>, init)

SetRamArea ==
    \E start_x \in XCoords, start_y \in YCoords, end_x \in XCoords, end_y \in YCoords :
        OnInstance /\ Call("set_ram_area", <<start_x, start_y, end_x, end_y>>, <<>>,
               set_ram_area(start_x, start_y, end_x, end_y))

SetRamCounter == \E x \in XCoords, y \in YCoords :
    OnInstance /\ Call("set_ram_counter", <<x, y>>, <<>>, set_ram_counter(x, y))

UseFullFrame ==
    /\ OnInstance
    /\ Call("use_full_frame", <<>>, <<>>, use_full_frame)

\* The instruction executed next, when one is.
Cur == Head(prog)

\* The operation is inside a busy-wait, polling the busy pin.
Polling == Running /\ prog # <<>> /\ Cur.k = "wait"

Frame == << exists, background_color, op, args, bufs, sleeping, was_sleeping, ret >>

\* interface.reset(): the reset pulse on the RST pin.
StepReset ==
    /\ Running /\ prog # <<>> /\ Cur.k = "reset"
    /\ log' = Append(log, Event(Cur, "ok"))
    /\ prog' = Tail(prog)
    /\ ctl_reset
    /\ UNCHANGED << Frame, busy_pin, status >>

\* interface.wait_until_idle(): returns once the busy pin shows idle.
StepWait ==
    /\ Polling
    /\ ~is_busy(Cur.n = 1)
    /\ log' = Append(log, Event(Cur, "ok"))
    /\ prog' = Tail(prog)
    /\ UNCHANGED << Frame, busy_pin, status, regs, asleep >>

\* assert!(cond) with cond true.
StepAssertPass ==
    /\ Running /\ prog # <<>> /\ Cur.k = "assert" /\ Cur.n = 1
    /\ prog' = Tail(prog)
    /\ UNCHANGED << Frame, busy_pin, status, log, regs, asleep >>

\* assert!(cond) with cond false, and unimplemented!(): the thread panics.
StepPanic ==
    /\ Running /\ prog # <<>>
    /\ \/ Cur.k = "assert" /\ Cur.n = 0
       \/ Cur.k = "panic"
    /\ status' = "panic"
    /\ prog' = <<>>
    /\ UNCHANGED << Frame, busy_pin, log, regs, asleep >>

BusKinds == {"cmd", "data", "data_x_times"}

\* A bus transaction that the SPI device completes.
StepBusOk ==
    /\ Running /\ prog # <<>> /\ Cur.k \in BusKinds
    /\ log' = Append(log, Event(Cur, "ok"))
    /\ prog' = Tail(prog)
    /\ ctl_take(Cur)
    /\ UNCHANGED << Frame, busy_pin, status >>

\* A bus transaction that returns Err(e).  With q the error is returned to the
\* caller of the operation.  The controller is left undefined: it may or may
\* not have taken the bytes.
StepBusErr == \E e \in SpiError, taken \in BOOLEAN :
    /\ Running /\ prog # <<>> /\ Cur.k \in BusKinds
    /\ log' = Append(log, Event(Cur, e))
    /\ IF Cur.q
       THEN status' = e /\ prog' = <<>>
       ELSE status' = status /\ prog' = Tail(prog)
    /\ IF taken THEN ctl_take(Cur) ELSE UNCHANGED << regs, asleep >>
    /\ UNCHANGED << Frame, busy_pin >>

\* The body ran to its end: Ok(()), and for new, Ok(epd).
Return ==
    /\ Running /\ prog = <<>>
    /\ status' = "Ok"
    /\ exists' = (exists \/ op = "new")
    /\ sleeping' = (sleeping \/ op = "sleep")
    /\ UNCHANGED << background_color, busy_pin, op, args, bufs, prog, log, regs,
                    asleep, was_sleeping, ret >>

\* The panel raises and releases its busy line.  The driver reads the pin only
\* inside a busy-wait, so only the changes during one are modelled.
PanelBusy ==
    /\ Polling
    /\ ~is_busy(IS_BUSY_LOW)
    /\ busy_pin' = (IF IS_BUSY_LOW THEN "low" ELSE "high")
    /\ UNCHANGED << exists, background_color, op, args, bufs, prog, status, log,
                    regs, asleep, sleeping, was_sleeping, ret >>

PanelIdle ==
    /\ Polling
    /\ is_busy(IS_BUSY_LOW)
    /\ busy_pin' = (IF IS_BUSY_LOW THEN "high" ELSE "low")
    /\ UNCHANGED << exists, background_color, op, args, bufs, prog, status, log,
                    regs, asleep, sleeping, was_sleeping, ret >>

PublicNext ==
    \/ New
    \/ WakeUp
    \/ Sleep
    \/ UpdateFrame
    \/ UpdateColorFrame
    \/ UpdateAchromaticFrame
    \/ UpdateChromaticFrame
    \/ DisplayFrame
    \/ UpdateAndDisplayFrame
    \/ ClearFrame
    \/ UpdatePartialFrame
    \/ SetLut
    \/ SetBackgroundColor
    \/ BackgroundColor
    \/ Width
    \/ Height

CrateNext ==
    \/ New
    \/ InitCall
    \/ SetRamArea
    \/ SetRamCounter
    \/ UseFullFrame

StepNext ==
    \/ StepReset
    \/ StepWait
    \/ StepAssertPass
    \/ StepPanic
    \/ StepBusOk
    \/ StepBusErr
    \/ Return

PanelNext ==
    \/ PanelBusy
    \/ PanelIdle

\* The public operations of the driver, called in any order.
Next ==
    \/ PublicNext
    \/ StepNext
    \/ PanelNext

Spec == Init /\ [][Next]_vars

\* The crate-internal functions, called with any arguments.
NextCrate ==
    \/ CrateNext
    \/ StepNext
    \/ PanelNext

SpecCrate == Init /\ [][NextCrate]_vars

\* The public operations on a caller's thread that keeps running (an enabled
\* step of the operation is eventually taken) and whose polling loop sees the
\* busy line idle if the line is idle again and again.
SpecLive ==
    /\ Init
    /\ [][Next]_vars
    /\ WF_vars(StepNext)
    /\ SF_vars(StepWait)

TypeOK ==
    /\ exists \in BOOLEAN
    /\ background_color \in TriColor
    /\ busy_pin \in {"low", "high"}
    /\ status \in {"none", "running", "Ok", "panic"} \cup SpiError
    /\ asleep \in BOOLEAN

\* ------------------------------------------------------------------ claims

\* An event of the log: instruction (kind, opcode, data, num) done without error.
Ev(kind, opcode, data, num) ==
    [k |-> kind, op |-> opcode, d |-> data, n |-> num, r |-> "ok"]

IsBus(e) == e.k \in BusKinds

IsCmd(e, c) == e.k = "cmd" /\ e.op = c

IsLogged(ins) == ins.k \in {"reset", "wait"} \cup BusKinds

\* The log is an execution of instruction sequence p: its events are those of
\* the first instructions of p, in order, all but possibly the last without
\* error; Ok is returned after all of them, Err(e) right after the one that
\* returned e, and nothing panics.
LogFollows(p) ==
    LET L == SelectSeq(p, IsLogged) IN
    /\ Len(log) <= Len(L)
    /\ \A i \in 1..Len(log) :
          /\ log[i].k = L[i].k /\ log[i].op = L[i].op
          /\ log[i].d = L[i].d /\ log[i].n = L[i].n
          /\ i < Len(log) => log[i].r = "ok"
    /\ status \in {"running", "Ok"} \cup SpiError
    /\ status = "Ok" => Len(log) = Len(L) /\ log[Len(log)].r = "ok"
    /\ status \in SpiError => log # <<>> /\ log[Len(log)].r = status
    /\ status = "running" /\ log # <<>> => log[Len(log)].r = "ok"

\* The events of the full-window and cursor selection (use_full_frame).
FullFrameEvents ==
    << Ev("wait", "", <<>>, 0),
       Ev("cmd", "SetRamXAddressStartEndPosition", <<>>, 0),
       Ev("data", "SetRamXAddressStartEndPosition", <<0, 24>>, 0),
       Ev("cmd", "SetRamYAddressStartEndPosition", <<>>, 0),
       Ev("data", "SetRamYAddressStartEndPosition", <<0, 0, 199, 0>>, 0),
       Ev("wait", "", <<>>, 0),
       Ev("cmd", "SetRamXAddressCounter", <<>>, 0),
       Ev("data", "SetRamXAddressCounter", <<0>>, 0),
       Ev("cmd", "SetRamYAddressCounter", <<>>, 0),
       Ev("data", "SetRamYAddressCounter", <<0, 0>>, 0) >>

\* C1: in display_frame and update_and_display_frame, whatever the driver does
\* next after issuing MasterActivation is the Nop command: any event that
\* follows a MasterActivation in the log is Nop, and while an accepted
\* MasterActivation is the last event, the operation is still running and the
\* instruction it executes next is the Nop command.
C1_MasterActivationThenNop ==
    \A i \in 1..Len(log) :
        IsCmd(log[i], "MasterActivation") =>
            /\ op \in {"display_frame", "update_and_display_frame"}
            /\ i < Len(log) => IsCmd(log[i + 1], "Nop")
            /\ i = Len(log) /\ log[i].r = "ok" =>
                  Running /\ prog # <<>> /\ Cur.k = "cmd" /\ Cur.op = "Nop"

C1_Witness ==
    /\ op = "display_frame"
    /\ status = "Ok"
    /\ \E i \in 1..(Len(log) - 1) :
          /\ IsCmd(log[i], "MasterActivation")
          /\ IsCmd(log[i + 1], "Nop")

\* C2: a clear_frame that returns Ok has done exactly: a busy-wait, the
\* full-window and cursor selection, WriteRam, a fill of the achromatic plane,
\* WriteRam2, a fill of 5000 bytes of 0x00; the achromatic fill is 10000 bytes
\* of 0xFF when the background is Chromatic and 5000 bytes of the background's
\* byte value otherwise.
C2_ClearFrameFill ==
    op = "clear_frame" /\ status = "Ok" =>
        log = << Ev("wait", "", <<>>, 0) >>
              \o FullFrameEvents
              \o << Ev("cmd", "WriteRam", <<>>, 0),
                    IF background_color = "Chromatic"
                    THEN Ev("data_x_times", "", <<255>>, 10000)
                    ELSE Ev("data_x_times", "",
                            <<get_byte_value(background_color)>>, 5000),
                    Ev("cmd", "WriteRam2", <<>>, 0),
                    Ev("data_x_times", "", <<0>>, 5000) >>

C2_Witness ==
    /\ op = "clear_frame"
    /\ status = "Ok"
    /\ background_color = "Chromatic"
    /\ \E i \in 1..Len(log) : log[i].k = "data_x_times" /\ log[i].n = 10000

\* C3: a set_ram_area call with start_x >= end_x or start_y >= end_y puts
\* nothing on the bus (no command, no data) and returns neither Ok nor Err: it
\* ends in a panic.
C3_BadWindowPanics ==
    op = "set_ram_area" /\ (args[1] >= args[3] \/ args[2] >= args[4]) =>
        /\ \A i \in 1..Len(log) : ~IsBus(log[i])
        /\ status \in {"running", "panic"}

C3_Witness ==
    /\ op = "set_ram_area"
    /\ args[1] < args[3]
    /\ args[2] >= args[4]
    /\ status = "panic"

\* C4: wake_up does what init does: the log of a wake_up is an execution of
\* init's instruction sequence (reset pulse, busy-waits, commands and payloads
\* in the same order, the same result), as is the log of the init that new runs.
C4_WakeUpIsInit ==
    op \in {"wake_up", "new"} => LogFollows(init)

C4_Witness ==
    /\ op = "wake_up"
    /\ status = "Ok"
    /\ log[1].k = "reset"

\* C5: update_partial_frame and set_lut put nothing on the pins or the bus (no
\* transaction, no busy-wait, no reset) and never return: they panic.
C5_UnsupportedPanics ==
    op \in {"update_partial_frame", "set_lut"} =>
        /\ log = <<>>
        /\ status \in {"running", "panic"}

C5_Witness ==
    /\ op = "update_partial_frame"
    /\ args[1] = 7
    /\ status = "panic"

\* The events of an init that returns Ok.
InitEvents ==
    << Ev("reset", "", <<10000, 10000>>, 0),
       Ev("wait", "", <<>>, 0),
       Ev("cmd", "SwReset", <<>>, 0),
       Ev("wait", "", <<>>, 0),
       Ev("cmd", "DriverOutputControl", <<>>, 0),
       Ev("data", "DriverOutputControl", <<199, 0, 0>>, 0),
       Ev("cmd", "DataEntryModeSetting", <<>>, 0),
       Ev("data", "DataEntryModeSetting", <<3>>, 0),
       Ev("wait", "", <<>>, 0),
       Ev("cmd", "SetRamXAddressStartEndPosition", <<>>, 0),
       Ev("data", "SetRamXAddressStartEndPosition", <<0, 24>>, 0),
       Ev("cmd", "SetRamYAddressStartEndPosition", <<>>, 0),
       Ev("data", "SetRamYAddressStartEndPosition", <<0, 0, 199, 0>>, 0),
       Ev("cmd", "BorderWaveformControl", <<>>, 0),
       Ev("data", "BorderWaveformControl", <<5>>, 0),
       Ev("cmd", "TemperatureSensorSelection", <<>>, 0),
       Ev("data", "TemperatureSensorSelection", <<128>>, 0),
       Ev("cmd", "TemperatureSensorControl", <<>>, 0),
       Ev("data", "TemperatureSensorControl", <<177, 32>>, 0),
       Ev("wait", "", <<>>, 0),
       Ev("cmd", "SetRamXAddressCounter", <<>>, 0),
       Ev("data", "SetRamXAddressCounter", <<0>>, 0),
       Ev("cmd", "SetRamYAddressCounter", <<>>, 0),
       Ev("data", "SetRamYAddressCounter", <<0, 0>>, 0),
       Ev("wait", "", <<>>, 0) >>

\* C6: an instance exists only once new has run the whole of init without
\* error, hardware reset first: new yields the instance exactly when it returns
\* Ok, its log is then the complete init sequence, a transaction of init that
\* fails makes new return that error without an instance, and every other
\* operation runs on an instance.
C6_InstanceOnlyAfterInit ==
    /\ op = "none" => ~exists
    /\ op = "new" => (exists <=> status = "Ok")
    /\ op = "new" /\ status = "Ok" => log = InitEvents
    /\ op = "new" /\ (\E i \in 1..Len(log) : log[i].r # "ok") =>
          /\ status = log[Len(log)].r
          /\ ~exists
    /\ op \notin {"none", "new"} => exists

C6_Witness ==
    /\ op = "new"
    /\ status \in SpiError
    /\ ~exists
    /\ Len(log) > 2

\* C7: a bus transaction that returns an error is the last event of its
\* operation: the operation executes nothing after it and returns that error;
\* and an operation returns an error only right after the transaction that
\* returned it.
C7_ErrorAborts ==
    /\ \A i \in 1..Len(log) :
          log[i].r # "ok" =>
              /\ IsBus(log[i])
              /\ i = Len(log)
              /\ prog = <<>>
              /\ status = log[i].r
    /\ status \in SpiError => log # <<>> /\ log[Len(log)].r = status

C7_Witness ==
    /\ op = "clear_frame"
    /\ status = "E2"
    /\ Len(log) = 12
    /\ IsCmd(log[12], "WriteRam")

\* The operations that C8 says cannot reach the controller while it sleeps.
SleepGuarded ==
    {"update_frame", "update_color_frame", "display_frame", "clear_frame", "sleep"}

\* C8 as stated: an update_frame, update_color_frame, display_frame,
\* clear_frame or sleep called after sleep has completed, and before wake_up,
\* puts no transaction on the bus.
C8_Original ==
    was_sleeping /\ op \in SleepGuarded => \A i \in 1..Len(log) : ~IsBus(log[i])

\* C8 as amended: sleep busy-waits and then emits only DeepSleepMode with
\* payload 0x01; the controller leaves deep sleep only in wake_up; but the driver
\* keeps no lifecycle state, and an operation called after sleep and before
\* wake_up runs as always: when it returns Ok it has issued its whole sequence.
C8_SleepWakeUnguarded ==
    /\ op = "sleep" =>
          LogFollows(<< Ev("wait", "", <<>>, 0),
                        Ev("cmd", "DeepSleepMode", <<>>, 0),
                        Ev("data", "DeepSleepMode", <<1>>, 0) >>)
    /\ was_sleeping /\ ~asleep => op = "wake_up"
    /\ was_sleeping /\ op \in SleepGuarded /\ status = "Ok" =>
          /\ \A i \in 1..Len(log) : log[i].r = "ok"
          /\ Len(log) = CASE op = "sleep" -> 3
                          [] op = "display_frame" -> 5
                          [] op = "update_frame" -> 13
                          [] op = "clear_frame" -> 15
                          [] op = "update_color_frame" -> 26

C8_Witness ==
    /\ was_sleeping
    /\ op = "update_frame"
    /\ status = "Ok"
    /\ IsCmd(log[12], "WriteRam")

\* What init leaves in the configuration registers.
InitConfig ==
    [c \in RegOps |->
        CASE c = "DriverOutputControl" -> <<199, 0, 0>>
          [] c = "DataEntryModeSetting" -> <<3>>
          [] c = "SetRamXAddressStartEndPosition" -> <<0, 24>>
          [] c = "SetRamYAddressStartEndPosition" -> <<0, 0, 199, 0>>
          [] c = "SetRamXAddressCounter" -> <<0>>
          [] c = "SetRamYAddressCounter" -> <<0, 0>>
          [] c = "BorderWaveformControl" -> <<5>>
          [] c = "TemperatureSensorSelection" -> <<128>>
          [] c = "TemperatureSensorControl" -> <<177, 32>>]

\* C9: whatever ran before (a previous init, sleep, frame writes, a refresh, a
\* failed operation), an init that returns Ok leaves the controller in one and
\* the same state: awake, with every configuration register at init's value.
C9_InitIdempotent ==
    op \in InitOps /\ status = "Ok" => regs = InitConfig /\ ~asleep

C9_Witness ==
    /\ op = "wake_up"
    /\ status = "Ok"
    /\ was_sleeping
    /\ regs = InitConfig

\* C10: the log of update_and_display_frame is an execution of update_frame's
\* sequence followed by display_frame's: the 13 events of the write come first,
\* and DisplayUpdateControl2, MasterActivation and Nop are issued only after
\* the buffer was written to the achromatic plane without error.
C10_WriteThenDisplay ==
    op = "update_and_display_frame" =>
        /\ LogFollows(update_frame(bufs[1]) \o display_frame)
        /\ \A i \in 1..Len(log) :
              log[i].op \in {"DisplayUpdateControl2", "MasterActivation", "Nop"} =>
                  /\ i > 13
                  /\ log[12] = Ev("cmd", "WriteRam", <<>>, 0)
                  /\ log[13] = Ev("data", "WriteRam", bufs[1], 0)

C10_Witness ==
    /\ op = "update_and_display_frame"
    /\ status = "Ok"
    /\ bufs[1] = <<255>>
    /\ IsCmd(log[Len(log)], "Nop")

\* C11: new leaves the background colour White in the instance it returns, and
\* width() and height() return 200 whenever they are called, whatever ran
\* before and whatever the background colour is.
C11_DefaultsAndSize ==
    /\ op = "new" /\ status = "Ok" => exists /\ background_color = "White"
    /\ op = "width" => ret = << 200 >>
    /\ op = "height" => ret = << 200 >>

C11_Witness ==
    /\ op = "width"
    /\ ret = << 200 >>
    /\ background_color = "Black"
    /\ sleeping

\* The events of a sleep, of a display_frame, and of a full-frame write of
\* buffer to the plane of opcode c, when none fails.
SleepEvents ==
    << Ev("wait", "", <<>>, 0),
       Ev("cmd", "DeepSleepMode", <<>>, 0),
       Ev("data", "DeepSleepMode", <<1>>, 0) >>

DisplayEvents ==
    << Ev("wait", "", <<>>, 0),
       Ev("cmd", "DisplayUpdateControl2", <<>>, 0),
       Ev("data", "DisplayUpdateControl2", <<247>>, 0),
       Ev("cmd", "MasterActivation", <<>>, 0),
       Ev("cmd", "Nop", <<>>, 0) >>

WriteEvents(c, buffer) ==
    << Ev("wait", "", <<>>, 0) >>
    \o FullFrameEvents
    \o << Ev("cmd", c, <<>>, 0), Ev("data", c, buffer, 0) >>

\* What each operation but clear_frame does, stated without the background
\* colour: the log is an execution of one sequence fixed by the operation and
\* its buffers.
SameForAllColors ==
    /\ op \in {"set_background_color", "background_color", "width", "height"} =>
          log = <<>> /\ prog = <<>> /\ status = "Ok"
    /\ op \in {"new", "wake_up"} => LogFollows(InitEvents)
    /\ op = "sleep" => LogFollows(SleepEvents)
    /\ op = "display_frame" => LogFollows(DisplayEvents)
    /\ op \in {"update_frame", "update_achromatic_frame"} =>
          LogFollows(WriteEvents("WriteRam", bufs[1]))
    /\ op = "update_chromatic_frame" => LogFollows(WriteEvents("WriteRam2", bufs[1]))
    /\ op = "update_color_frame" =>
          LogFollows(WriteEvents("WriteRam", bufs[1]) \o WriteEvents("WriteRam2", bufs[2]))
    /\ op = "update_and_display_frame" =>
          LogFollows(WriteEvents("WriteRam", bufs[1]) \o DisplayEvents)

\* In clear_frame only the achromatic fill (event 13) follows the background
\* colour: every other event is the same for all colours.
ClearSameButFill ==
    op = "clear_frame" =>
        LET fixed == << Ev("wait", "", <<>>, 0) >> \o FullFrameEvents
                     \o << Ev("cmd", "WriteRam", <<>>, 0),
                           Ev("data_x_times", "", <<>>, 0),
                           Ev("cmd", "WriteRam2", <<>>, 0),
                           Ev("data_x_times", "", <<0>>, 5000) >>
        IN  /\ Len(log) <= Len(fixed)
            /\ \A i \in 1..Len(log) :
                  /\ log[i].k = fixed[i].k /\ log[i].op = fixed[i].op
                  /\ i # 13 => log[i].d = fixed[i].d /\ log[i].n = fixed[i].n

\* C12: background_color changes only in set_background_color, which puts
\* nothing on the pins or the bus; every operation other than clear_frame does
\* the same for all background colours; and in clear_frame only the fill of
\* the achromatic plane follows it.
C12_BackgroundOnlyClear ==
    /\ [](SameForAllColors /\ ClearSameButFill)
    /\ [][background_color' # background_color =>
             op' = "set_background_color" /\ log' = <<>> /\ status' = "Ok"
             /\ regs' = regs /\ asleep' = asleep]_vars

C12_Witness ==
    /\ op = "display_frame"
    /\ status = "Ok"
    /\ background_color = "Chromatic"
    /\ log = DisplayEvents

\* The payload events of opcode c in the log.
IsPayload(e, c) == e.k = "data" /\ e.op = c

\* The byte number of X coordinate x with its low 3 bits cleared first.
XByte(x) == (x - (x % 8)) \div 8

Returned == status \in {"Ok"} \cup SpiError

\* The operation is inside a busy-wait and the busy line shows busy.
Blocked == Polling /\ is_busy(IS_BUSY_LOW)

\* C15: there is no timeout.  An operation that is called (other than the two
\* the driver does not implement) returns, unless from some moment on it sits
\* in a busy-wait whose busy line stays busy for ever; and while an operation
\* is in a busy-wait with the line busy it does nothing: no step of it changes
\* its position, its log (no bus transaction) or its result.
C15_BlockingNoTimeout ==
    /\ (Running /\ op \notin {"update_partial_frame", "set_lut"})
           ~> (Returned \/ []Blocked)
    /\ [][Blocked => (prog' = prog /\ log' = log /\ status' = status
                      /\ regs' = regs /\ asleep' = asleep)]_vars

C15_Witness ==
    /\ op = "update_frame"
    /\ Blocked
    /\ Len(log) = 6
    /\ IsPayload(log[6], "SetRamYAddressStartEndPosition")

\* The events of init in the order C16 gives: window and cursor (step 5), then
\* border waveform and temperature sensor (step 6), then the busy-wait (step 7).
StatedInitEvents ==
    SubSeq(InitEvents, 1, 13)
    \o SubSeq(InitEvents, 20, 24)
    \o SubSeq(InitEvents, 14, 19)
    \o SubSeq(InitEvents, 25, 25)

\* C16 as stated: the log of an init is an execution of the steps in the
\* stated order, the RAM cursor reset before the border waveform.
C16_Original ==
    op \in {"new", "wake_up"} => LogFollows(StatedInitEvents)

\* The position in the log of the first event of opcode c, 0 when there is none.
FirstOf(c) ==
    IF \E i \in 1..Len(log) : log[i].op = c
    THEN CHOOSE i \in 1..Len(log) :
             log[i].op = c /\ \A j \in 1..(i - 1) : log[j].op # c
    ELSE 0

\* C16 as amended: init does, in this order: reset pulse, busy-wait; SwReset,
\* busy-wait; DriverOutputControl [199, 0, 0]; DataEntryModeSetting [3]; the
\* full window (after a busy-wait); BorderWaveformControl [5],
\* TemperatureSensorSelection [0x80], TemperatureSensorControl [0xB1, 0x20];
\* and only then the RAM cursor reset to (0,0) (after a busy-wait); a busy-wait
\* before returning.  The cursor is never programmed before the temperature
\* sensor control payload was accepted.
C16_InitOrder ==
    op \in {"new", "wake_up"} =>
        /\ status = "Ok" => log = InitEvents
        /\ \A i \in 1..Len(log) :
              /\ i <= Len(InitEvents)
              /\ Ev(log[i].k, log[i].op, log[i].d, log[i].n) = InitEvents[i]
        /\ FirstOf("SetRamXAddressCounter") # 0 =>
              /\ FirstOf("SetRamYAddressStartEndPosition") # 0
              /\ FirstOf("SetRamYAddressStartEndPosition") < FirstOf("BorderWaveformControl")
              /\ FirstOf("BorderWaveformControl") < FirstOf("TemperatureSensorSelection")
              /\ FirstOf("TemperatureSensorSelection") < FirstOf("TemperatureSensorControl")
              /\ FirstOf("TemperatureSensorControl") < FirstOf("SetRamXAddressCounter")
              /\ log[FirstOf("SetRamXAddressCounter") - 2] =
                     Ev("data", "TemperatureSensorControl", <<177, 32>>, 0)

C16_Witness ==
    /\ op = "wake_up"
    /\ status = "Ok"
    /\ Len(log) = 25
    /\ IsPayload(log[19], "TemperatureSensorControl")
    /\ IsCmd(log[21], "SetRamXAddressCounter")

\* A RAM-plane write opcode (plane 1 or plane 2) put on the bus.
IsWrite(e) == IsCmd(e, "WriteRam") \/ IsCmd(e, "WriteRam2")

\* C17 as stated: every RAM-plane write opcode in the log comes after a cursor
\* reset to (0,0) with no other RAM-plane write opcode between the two.
C17_Original ==
    \A i \in 1..Len(log) :
        IsWrite(log[i]) =>
            \E j \in 1..(i - 1) :
                /\ log[j] = Ev("data", "SetRamYAddressCounter", <<0, 0>>, 0)
                /\ \A k \in j..(i - 1) : ~IsWrite(log[k])

\* C17 as amended: in update_frame, update_achromatic_frame,
\* update_chromatic_frame, update_color_frame and update_and_display_frame
\* every RAM-plane write opcode comes right after a complete use_full_frame
\* (full window, then cursor (0,0)), as does the WriteRam of clear_frame, and
\* the controller then holds the full window and the cursor (0,0); the
\* WriteRam2 of clear_frame comes right after the fill of plane 1, with no
\* cursor reset between the two plane writes.
C17_CursorResetBeforeWrite ==
    \A i \in 1..Len(log) :
        IsWrite(log[i]) =>
            /\ op \in {"update_frame", "update_achromatic_frame", "update_chromatic_frame",
                        "update_color_frame", "update_and_display_frame", "clear_frame"}
            /\ IF op = "clear_frame" /\ log[i].op = "WriteRam2"
               THEN /\ i = 14
                    /\ log[12] = Ev("cmd", "WriteRam", <<>>, 0)
                    /\ log[13].k = "data_x_times" /\ log[13].r = "ok"
                    /\ SubSeq(log, 2, 11) = FullFrameEvents
               ELSE /\ i > 10
                    /\ SubSeq(log, i - 10, i - 1) = FullFrameEvents
                    /\ i = Len(log) /\ log[i].r = "ok" =>
                          \A c \in { "SetRamXAddressStartEndPosition",
                                      "SetRamYAddressStartEndPosition",
                                      "SetRamXAddressCounter",
                                      "SetRamYAddressCounter" } : regs[c] = InitConfig[c]

C17_Witness ==
    /\ op = "clear_frame"
    /\ status = "Ok"
    /\ IsCmd(log[14], "WriteRam2")
    /\ log[13].k = "data_x_times"
    /\ log[11] = Ev("data", "SetRamYAddressCounter", <<0, 0>>, 0)

\* C18: update_frame does a busy-wait, use_full_frame (window, then cursor),
\* then WriteRam with the caller's buffer as it is; update_color_frame does the
\* same with the achromatic buffer and then writes the chromatic buffer with
\* WriteRam2 (after a busy-wait and use_full_frame of its own): WriteRam2 is
\* issued only after the whole achromatic buffer was accepted, and each
\* payload is the caller's buffer, byte for byte.
C18_FrameWriteSequence ==
    /\ op = "update_frame" =>
          /\ status = "Ok" => log = WriteEvents("WriteRam", bufs[1])
          /\ \A i \in 1..Len(log) :
                /\ ~IsCmd(log[i], "WriteRam2")
                /\ IsCmd(log[i], "WriteRam") =>
                      /\ i = 12
                      /\ log[1] = Ev("wait", "", <<>>, 0)
                      /\ SubSeq(log, 2, 11) = FullFrameEvents
                /\ IsPayload(log[i], "WriteRam") => i = 13 /\ log[i].d = bufs[1]
    /\ op = "update_color_frame" =>
          /\ status = "Ok" =>
                log = WriteEvents("WriteRam", bufs[1]) \o WriteEvents("WriteRam2", bufs[2])
          /\ \A i \in 1..Len(log) :
                /\ IsCmd(log[i], "WriteRam") =>
                      /\ i = 12
                      /\ log[1] = Ev("wait", "", <<>>, 0)
                      /\ SubSeq(log, 2, 11) = FullFrameEvents
                /\ IsPayload(log[i], "WriteRam") => i = 13 /\ log[i].d = bufs[1]
                /\ IsCmd(log[i], "WriteRam2") =>
                      /\ i = 25
                      /\ log[13] = Ev("data", "WriteRam", bufs[1], 0)
                      /\ SubSeq(log, 15, 24) = FullFrameEvents
                /\ IsPayload(log[i], "WriteRam2") => i = 26 /\ log[i].d = bufs[2]

C18_Witness ==
    /\ op = "update_color_frame"
    /\ status = "Ok"
    /\ bufs = << <<0>>, <<255>> >>
    /\ log[13] = Ev("data", "WriteRam", <<0>>, 0)
    /\ log[26] = Ev("data", "WriteRam2", <<255>>, 0)

\* C19: every operation completes a busy-wait before its first bus
\* transaction, so whatever the operation before it left running in the
\* controller (a refresh after MasterActivation and Nop), nothing is put on the
\* bus until a busy-wait has seen the controller idle; and the first
\* transaction of set_ram_area (the X-window opcode) and of set_ram_counter (the
\* X-counter opcode) comes right after a busy-wait of its own.
C19_WaitBeforeBus ==
    /\ \A i \in 1..Len(log) :
          IsBus(log[i]) =>
              \E j \in 1..(i - 1) :
                  /\ log[j] = Ev("wait", "", <<>>, 0)
                  /\ \A k \in 1..j : ~IsBus(log[k])
    /\ \A i \in 1..Len(log) :
          IsCmd(log[i], "SetRamXAddressStartEndPosition")
          \/ IsCmd(log[i], "SetRamXAddressCounter") =>
              i > 1 /\ log[i - 1] = Ev("wait", "", <<>>, 0)

C19_Witness ==
    /\ op = "update_chromatic_frame"
    /\ status = "Ok"
    /\ log[1].k = "wait"
    /\ log[7].k = "wait"
    /\ IsCmd(log[8], "SetRamXAddressCounter")

\* The registers of the addressing window and of the RAM cursor.
AddressOps ==
    { "SetRamXAddressStartEndPosition", "SetRamYAddressStartEndPosition",
      "SetRamXAddressCounter", "SetRamYAddressCounter" }

\* C20: whatever public operations are called, in whatever order, no
\* window-ordering assertion fails: every assertion an operation has still to
\* execute is true, and only update_partial_frame and set_lut ever panic; every
\* window payload put on the bus is the full panel (0,0)-(199,199) and every
\* cursor payload is (0,0), so the controller's window and cursor registers
\* hold nothing else (or nothing yet since the last reset).
C20_WindowAssertionsHold ==
    /\ \A i \in 1..Len(prog) : prog[i].k = "assert" => prog[i].n = 1
    /\ status = "panic" => op \in {"update_partial_frame", "set_lut"} /\ log = <<>>
    /\ \A i \in 1..Len(log) :
          log[i].k = "data" /\ log[i].op \in AddressOps =>
              log[i].d = InitConfig[log[i].op]
    /\ \A c \in AddressOps : regs[c] \in { <<>>, InitConfig[c] }

C20_Witness ==
    /\ op = "clear_frame"
    /\ Running
    /\ prog # <<>>
    /\ Cur.k = "assert"
    /\ Cur.n = 1
    /\ Len(log) = 2

====
